---------------------------- MODULE Spec2Model ----------------------------
(***************************************************************************)
(* Model of src/dsd.py: one render of the monthly sales dashboard.         *)
(*                                                                         *)
(* The script runs top to bottom once per render: sidebar inputs, load,    *)
(* enrich, four KPI cards, four charts, data preview.  st.stop() and an    *)
(* uncaught exception both end the render.                                 *)
(*                                                                         *)
(* Column names are ASCII stand-ins for the source's Korean labels:        *)
(*   "month" = wol (period label), "revenue" = maechul-aek,                *)
(*   "prior" = jeonnyeon-dongwol, "change" = jeunggam-ryul,                *)
(*   "quarter" = bungi, "_date" = _date.                                   *)
(*                                                                         *)
(* Floating point numbers are modelled as exact extended rationals in      *)
(* decimal scientific form [n, d, e]: d > 0 is the finite value            *)
(* n/d * 10^e in lowest terms (n no multiple of 10, d coprime to 10), 0/0  *)
(* is NaN and 1/0, -1/0 are +inf, -inf.  Rounding error is not modelled.   *)
(***************************************************************************)
EXTENDS Integers, Sequences, FiniteSets, TLC

(***************************************************************************)
(* Bounds                                                                  *)
(***************************************************************************)
\* largest number of rows of an uploaded table
MaxRows == 3

(***************************************************************************)
(* float64 arithmetic as extended rationals                                *)
(***************************************************************************)
Abs(i) == IF i < 0 THEN -i ELSE i

Sign(i) == IF i < 0 THEN -1 ELSE IF i > 0 THEN 1 ELSE 0

RECURSIVE Gcd(_, _)
Gcd(a, b) == IF b = 0 THEN a ELSE Gcd(b, a % b)

RECURSIVE Pow10(_)
Pow10(k) == IF k = 0 THEN 1 ELSE 10 * Pow10(k - 1)

\* the number of trailing decimal zeros of i > 0
RECURSIVE Zeros(_)
Zeros(i) == IF i % 10 = 0 THEN 1 + Zeros(i \div 10) ELSE 0

\* p/q * 10^e with the factors 2 and 5 of q moved into the exponent
RECURSIVE Clear(_, _, _)
Clear(p, q, e) ==
    IF q % 2 = 0 THEN Clear(p * 5, q \div 2, e - 1)
    ELSE IF q % 5 = 0 THEN Clear(p * 2, q \div 5, e - 1)
    ELSE [n |-> p \div Pow10(Zeros(p)), d |-> q, e |-> e + Zeros(p)]

\* n/d * 10^e in normal form; x/0 is +-inf, 0/0 is NaN
Norm(n, d, e) ==
    IF d = 0 THEN [n |-> Sign(n), d |-> 0, e |-> 0]
    ELSE IF n = 0 THEN [n |-> 0, d |-> 1, e |-> 0]
    ELSE LET g == Gcd(Abs(n), Abs(d))
             c == Clear(Abs(n) \div g, Abs(d) \div g, e)
         IN  [c EXCEPT !.n = Sign(n) * Sign(d) * c.n]

NaN == [n |-> 0, d |-> 0, e |-> 0]

Num(i) == Norm(i, 1, 0)

IsNaN(x) == x.d = 0 /\ x.n = 0

IsInf(x) == x.d = 0 /\ x.n # 0

IsFinite(x) == x.d > 0

FNeg(x) == [x EXCEPT !.n = -(x.n)]

FAdd(x, y) ==
    IF IsNaN(x) \/ IsNaN(y) THEN NaN
    ELSE IF IsInf(x) /\ IsInf(y) THEN (IF x.n = y.n THEN x ELSE NaN)
    ELSE IF IsInf(x) THEN x
    ELSE IF IsInf(y) THEN y
    ELSE LET e == IF x.e < y.e THEN x.e ELSE y.e
             xn == x.n * Pow10(x.e - e)
             yn == y.n * Pow10(y.e - e)
         IN  Norm(xn * y.d + yn * x.d, x.d * y.d, e)

FSub(x, y) == FAdd(x, FNeg(y))

\* cross-reduced so that the intermediate products stay small
FMul(x, y) ==
    IF IsNaN(x) \/ IsNaN(y) THEN NaN
    ELSE IF IsInf(x) \/ IsInf(y) THEN
        (IF x.n = 0 \/ y.n = 0 THEN NaN ELSE Norm(Sign(x.n) * Sign(y.n), 0, 0))
    ELSE LET a == Norm(x.n, y.d, 0)
             b == Norm(y.n, x.d, 0)
         IN  Norm(a.n * b.n, a.d * b.d, x.e + y.e + a.e + b.e)

\* float division: x/0 is +-inf, 0/0 and inf/inf are NaN, nothing raises
FDiv(x, y) ==
    IF IsNaN(x) \/ IsNaN(y) THEN NaN
    ELSE IF IsInf(y) THEN (IF IsInf(x) THEN NaN ELSE Num(0))
    ELSE IF y.n = 0 THEN Norm(Sign(x.n), 0, 0)
    ELSE FMul(x, [n |-> Sign(y.n) * y.d, d |-> Abs(y.n), e |-> -(y.e)])

\* x < y on non-NaN values
FLess(x, y) == FSub(x, y).n < 0

\* int(x) for a finite x: the integer part, rounded towards zero
Trunc(x) ==
    IF x.e >= 0 THEN Num(Sign(x.n) * ((Abs(x.n) * Pow10(x.e)) \div x.d))
    ELSE Num(Sign(x.n) * (Abs(x.n) \div (x.d * Pow10(-(x.e)))))

(***************************************************************************)
(* Cells of a parsed CSV table and their coercions                         *)
(***************************************************************************)
\* a cell is a string (sequence of characters), an int64, a float64 with
\* a terminating decimal expansion (v/d), or empty (NaN)
StrCell(chars) == [k |-> "str", s |-> chars, v |-> 0, d |-> 1]

IntCell(i) == [k |-> "int", s |-> << >>, v |-> i, d |-> 1]

FloatCell(n, d) == [k |-> "float", s |-> << >>, v |-> n, d |-> d]

NaCell == [k |-> "nan", s |-> << >>, v |-> 0, d |-> 1]

Digits == <<"0", "1", "2", "3", "4", "5", "6", "7", "8", "9">>

IsDigit(c) == \E i \in 1..10 : Digits[i] = c

DigitVal(c) == (CHOOSE i \in 1..10 : Digits[i] = c) - 1

IsSpace(c) == c \in {" ", "\t"}

\* decimal value of a sequence of digit characters
RECURSIVE DigitsVal(_)
DigitsVal(cs) ==
    IF cs = << >> THEN 0
    ELSE DigitsVal(SubSeq(cs, 1, Len(cs) - 1)) * 10 + DigitVal(cs[Len(cs)])

AllDigits(cs) == cs # << >> /\ \A i \in 1..Len(cs) : IsDigit(cs[i])

\* str(i) for an integer i >= 0
RECURSIVE NatStr(_)
NatStr(i) ==
    IF i < 10 THEN <<Digits[i + 1]>>
    ELSE NatStr(i \div 10) \o <<Digits[(i % 10) + 1]>>

\* digits after the decimal point of rem/d, 0 <= rem < d
RECURSIVE FracStr(_, _)
FracStr(rem, d) ==
    IF rem = 0 THEN << >>
    ELSE <<Digits[((rem * 10) \div d) + 1]>> \o FracStr((rem * 10) % d, d)

\* Series.astype(str) on one cell: NaN becomes the text "nan", a float
\* always shows a decimal point
AsStr(cell) ==
    IF cell.k = "str" THEN cell.s
    ELSE IF cell.k = "nan" THEN <<"n", "a", "n">>
    ELSE LET a == Abs(cell.v)
             sign == IF cell.v < 0 THEN <<"-">> ELSE << >>
             frac == FracStr(a % cell.d, cell.d)
         IN  IF cell.k = "int" THEN sign \o NatStr(a)
             ELSE sign \o NatStr(a \div cell.d) \o <<".">>
                       \o (IF frac = << >> THEN <<"0">> ELSE frac)

\* str.strip(): drop leading and trailing whitespace
RECURSIVE LStrip(_)
LStrip(cs) ==
    IF cs # << >> /\ IsSpace(cs[1]) THEN LStrip(Tail(cs)) ELSE cs

RECURSIVE RStrip(_)
RStrip(cs) ==
    IF cs # << >> /\ IsSpace(cs[Len(cs)])
    THEN RStrip(SubSeq(cs, 1, Len(cs) - 1)) ELSE cs

Strip(cs) == RStrip(LStrip(cs))

\* a parsed date is a year and a month; NaT is the null date
NaT == [y |-> 0, m |-> 0]

IsNaT(dt) == dt = NaT

\* pd.to_datetime(label, format="%Y-%m", errors="coerce") on one label:
\* four digits, "-", a month 01..12 (or 1..9); anything else is NaT
ToDatetime(cs) ==
    IF /\ Len(cs) \in {6, 7}
       /\ AllDigits(SubSeq(cs, 1, 4))
       /\ cs[5] = "-"
       /\ AllDigits(SubSeq(cs, 6, Len(cs)))
       /\ DigitsVal(SubSeq(cs, 6, Len(cs))) \in 1..12
       /\ (Len(cs) = 7 \/ cs[6] # "0")
    THEN [y |-> DigitsVal(SubSeq(cs, 1, 4)),
          m |-> DigitsVal(SubSeq(cs, 6, Len(cs)))]
    ELSE NaT

\* chronological order of two non-null dates
DateLess(a, b) == a.y * 12 + a.m < b.y * 12 + b.m

\* pd.to_numeric(cell, errors="coerce") on one cell: a number or a string
\* of digits (with an optional sign) is its value, any other text is NaN
ToNumeric(cell) ==
    IF cell.k \in {"int", "float"} THEN Norm(cell.v, cell.d, 0)
    ELSE IF cell.k = "nan" THEN NaN
    ELSE IF AllDigits(cell.s) THEN Num(DigitsVal(cell.s))
    ELSE IF Len(cell.s) > 1 /\ cell.s[1] = "-" /\ AllDigits(Tail(cell.s))
         THEN Num(-DigitsVal(Tail(cell.s)))
    ELSE NaN

\* QuarterOf with the month not shifted to start at 0
QuarterOf_Unshifted(dt) ==
    IF IsNaT(dt) THEN NaN ELSE Num((dt.m \div 3) + 1)

\* Series.dt.quarter on one date: NaN for NaT
QuarterOf(dt) ==
    IF IsNaT(dt) THEN NaN ELSE Num(((dt.m - 1) \div 3) + 1)

(***************************************************************************)
(* Tables: the columns present and the rows, each row a function from the  *)
(* columns to cells                                                        *)
(***************************************************************************)
AllColumns == {"month", "revenue", "prior", "change"}

Table(cols, recs) ==
    [cols |-> cols,
     rows |-> [i \in 1..Len(recs) |-> [c \in cols |-> recs[i][c]]]]

Rec(month, revenue, prior, change) ==
    [month |-> month, revenue |-> revenue, prior |-> prior, change |-> change]

SampleRow(label, revenue, prior, tenths) ==
    Rec(StrCell(label), IntCell(revenue), IntCell(prior), FloatCell(tenths, 10))

\* the table pd.read_csv gives for the text SAMPLE_CSV
SAMPLE_CSV ==
    Table(AllColumns, <<
       SampleRow(<<"2", "0", "2", "4", "-", "0", "1">>, 12000000, 10500000, 143),
       SampleRow(<<"2", "0", "2", "4", "-", "0", "2">>, 13500000, 11200000, 205),
       SampleRow(<<"2", "0", "2", "4", "-", "0", "3">>, 11000000, 12800000, -141),
       SampleRow(<<"2", "0", "2", "4", "-", "0", "4">>, 18000000, 15200000, 184),
       SampleRow(<<"2", "0", "2", "4", "-", "0", "5">>, 21000000, 18500000, 135),
       SampleRow(<<"2", "0", "2", "4", "-", "0", "6">>, 22000000, 19000000, 158),
       SampleRow(<<"2", "0", "2", "4", "-", "0", "7">>, 25000000, 20500000, 220),
       SampleRow(<<"2", "0", "2", "4", "-", "0", "8">>, 28000000, 24500000, 143),
       SampleRow(<<"2", "0", "2", "4", "-", "0", "9">>, 24000000, 21000000, 143),
       SampleRow(<<"2", "0", "2", "4", "-", "1", "0">>, 23000000, 20000000, 150),
       SampleRow(<<"2", "0", "2", "4", "-", "1", "1">>, 19500000, 17500000, 114),
       SampleRow(<<"2", "0", "2", "4", "-", "1", "2">>, 17000000, 16500000, 30)
    >>)

\* parse_sample(SAMPLE_CSV)
parse_sample(sample_text) == sample_text

\* the rows an uploaded table is made of: the sort scenario of two
\* unordered months, a zero and an empty prior-year value, text in numeric
\* columns, labels that are padded, out of range, not dates or empty,
\* equal dates and equal revenues
RowPool ==
    { Rec(StrCell(<<"2", "0", "2", "4", "-", "0", "3">>), IntCell(11000000), IntCell(12800000), NaCell),
      Rec(StrCell(<<"2", "0", "2", "4", "-", "0", "1">>), IntCell(12000000), IntCell(10500000), NaCell),
      Rec(StrCell(<<" ", "2", "0", "2", "4", "-", "0", "7", " ">>), IntCell(22000000), IntCell(0), NaCell),
      Rec(StrCell(<<"2", "0", "2", "4", "-", "0", "1">>), IntCell(22000000), IntCell(20000000), IntCell(5)),
      Rec(StrCell(<<"b", "a", "d">>), StrCell(<<"a", "b", "c">>), StrCell(<<"1", "0", "5", "0", "0", "0", "0", "0">>), NaCell),
      Rec(StrCell(<<"2", "0", "2", "4", "-", "1", "0">>), IntCell(11000000), NaCell, StrCell(<<"x">>)),
      Rec(StrCell(<<"2", "0", "2", "4", "-", "1", "3">>), IntCell(0), IntCell(0), NaCell),
      Rec(NaCell, NaCell, IntCell(0), FloatCell(-15, 10)) }

\* sequences of at most n rows of the pool
RECURSIVE RowSeqs(_)
RowSeqs(n) ==
    IF n = 0 THEN {<< >>}
    ELSE LET shorter == RowSeqs(n - 1)
         IN  shorter \cup {Append(rs, r) : rs \in shorter, r \in RowPool}

\* the header lines a CSV may have: all four columns, or one left out
Headers == {AllColumns} \cup {AllColumns \ {c} : c \in AllColumns}

\* st.file_uploader: nothing, a file read_csv cannot parse, or a CSV file
NoUpload == [kind |-> "none", cause |-> "", cols |-> {}, rows |-> << >>]

BadUploads ==
    {[kind |-> "bad", cause |-> e, cols |-> {}, rows |-> << >>] :
        e \in {"EmptyDataError", "ParserError"}}

CsvUploads ==
    {[kind |-> "csv", cause |-> "", cols |-> h, rows |-> Table(h, rs).rows] :
        h \in Headers, rs \in RowSeqs(MaxRows)}

Uploads == {NoUpload} \cup BadUploads \cup CsvUploads

\* st.number_input(min_value=0, value=20_000_000): values the user may set
Targets == {0, 20000000, 25000000}

\* read_csv(file): the parsed table; defined for CSV files only
read_csv(file) == [cols |-> file.cols, rows |-> file.rows]

(***************************************************************************)
(* enrich_df                                                               *)
(***************************************************************************)
\* the required column whose lookup raises KeyError first ("" if none):
\* df["month"] is read first, then revenue and prior in the casting loop
MissingColumn(cols) ==
    IF "month" \notin cols THEN "month"
    ELSE IF "revenue" \notin cols THEN "revenue"
    ELSE IF "prior" \notin cols THEN "prior"
    ELSE ""

\* the elements of a set of integers in ascending order
RECURSIVE Ascending(_)
Ascending(S) ==
    IF S = {} THEN << >>
    ELSE LET lo == CHOOSE i \in S : \A j \in S : i <= j
         IN  <<lo>> \o Ascending(S \ {lo})

\* the orders of the positions S in which the dates never decrease
RECURSIVE SortedOrders(_, _)
SortedOrders(S, dates) ==
    IF S = {} THEN {<< >>}
    ELSE UNION { {<<i>> \o rest : rest \in SortedOrders(S \ {i}, dates)} :
                 i \in {k \in S : \A j \in S : ~DateLess(dates[j], dates[k])} }

\* SortValues without the sort: the rows stay in input order
SortValues_Unsorted(dates) == {Ascending(DOMAIN dates)}

\* df.sort_values("_date"): the orders of the row positions it may produce.
\* NaT rows go last in their original order; the default sort is not
\* stable, so rows with equal dates come in any order.
SortValues(dates) ==
    LET idx == DOMAIN dates
    IN  { order \o Ascending({i \in idx : IsNaT(dates[i])}) :
          order \in SortedOrders({i \in idx : ~IsNaT(dates[i])}, dates) }

\* Ne0 without the test: every missing row is computed
Ne0_Always(x) == TRUE

\* Series.ne(0) on one value: NaN is not equal to 0
Ne0(x) == ~(IsFinite(x) /\ x.n = 0)

\* ChangeFormula dividing by the revenue instead of the prior-year value
ChangeFormula_ByRevenue(revenue, prior) ==
    FMul(FDiv(FSub(revenue, prior), revenue), Num(100))

\* (revenue - prior) / prior * 100 on one row
ChangeFormula(revenue, prior) ==
    FMul(FDiv(FSub(revenue, prior), prior), Num(100))

\* df.loc[sel, col] = rhs: the selected rows take the value rhs has at the
\* same index label, NaN where rhs has none
LocAssign(col, sel, rhs) ==
    [i \in DOMAIN col |->
        IF sel[i] THEN (IF i \in DOMAIN rhs THEN rhs[i] ELSE NaN) ELSE col[i]]

\* FillNa that fills nothing
FillNa_Keep(x) == x

\* Series.fillna(0) on one value
FillNa(x) == IF IsNaN(x) THEN Num(0) ELSE x

\* the table enrich_df returns when sort_values puts the rows in the given
\* order; orig is the row's position in the input, kept for reference
EnrichedRows(raw, order) ==
    LET idx == 1..Len(order)
        src(i) == raw.rows[order[i]]
        month == [i \in idx |-> Strip(AsStr(src(i).month))]
        date == [i \in idx |-> ToDatetime(month[i])]
        revenue == [i \in idx |-> ToNumeric(src(i).revenue)]
        prior == [i \in idx |-> ToNumeric(src(i).prior)]
        change0 == [i \in idx |->
                      IF "change" \in raw.cols THEN ToNumeric(src(i).change)
                      ELSE NaN]
        missing_mask == [i \in idx |-> IsNaN(change0[i])]
        sel == [i \in idx |-> missing_mask[i] /\ Ne0(prior[i])]
        rhs == [i \in {j \in idx : missing_mask[j]} |->
                  ChangeFormula(revenue[i], prior[i])]
        change1 == LocAssign(change0, sel, rhs)
    IN  [i \in idx |->
            [month |-> month[i], date |-> date[i], revenue |-> revenue[i],
             prior |-> prior[i], change |-> FillNa(change1[i]),
             quarter |-> QuarterOf(date[i]), orig |-> order[i]]]

\* the tables enrich_df(raw) may return, for a table with the required
\* columns
enrich_df(raw) ==
    LET dates == [i \in 1..Len(raw.rows) |->
                    ToDatetime(Strip(AsStr(raw.rows[i].month)))]
    IN  {EnrichedRows(raw, order) : order \in SortValues(dates)}

(***************************************************************************)
(* KPI cards and charts                                                    *)
(***************************************************************************)
\* Series.sum() / Series.mean(): NaN values are skipped
RECURSIVE SumFrom(_, _)
SumFrom(col, i) ==
    IF i > Len(col) THEN Num(0)
    ELSE IF IsNaN(col[i]) THEN SumFrom(col, i + 1)
    ELSE FAdd(col[i], SumFrom(col, i + 1))

Sum(col) == SumFrom(col, 1)

Count(col) == Cardinality({i \in DOMAIN col : ~IsNaN(col[i])})

Mean(col) == IF Count(col) = 0 THEN NaN ELSE FDiv(Sum(col), Num(Count(col)))

\* IdxMax taking the last label that holds the largest value
IdxMax_Last(col) ==
    LET nn == {i \in DOMAIN col : ~IsNaN(col[i])}
    IN  IF nn = {} THEN 0
        ELSE CHOOSE i \in nn :
               /\ \A j \in nn : ~FLess(col[i], col[j])
               /\ \A j \in nn : j > i => FLess(col[j], col[i])

\* Series.idxmax(): the first label holding the largest non-NaN value;
\* 0 when there is none (idxmax raises, or gives NaN and df.loc raises)
IdxMax(col) ==
    LET nn == {i \in DOMAIN col : ~IsNaN(col[i])}
    IN  IF nn = {} THEN 0
        ELSE CHOOSE i \in nn :
               /\ \A j \in nn : ~FLess(col[i], col[j])
               /\ \A j \in nn : j < i => FLess(col[j], col[i])

\* Series.idxmin(): the first label holding the smallest non-NaN value
IdxMin(col) ==
    LET nn == {i \in DOMAIN col : ~IsNaN(col[i])}
    IN  IF nn = {} THEN 0
        ELSE CHOOSE i \in nn :
               /\ \A j \in nn : ~FLess(col[j], col[i])
               /\ \A j \in nn : j < i => FLess(col[i], col[j])

\* the exceptions line 94 can raise when no revenue is numeric: idxmax of
\* an empty column is a ValueError; of an all-NaN column it is a ValueError
\* or a NaN label that df.loc rejects with a KeyError, by pandas version
IdxErrors(col) ==
    IF Len(col) = 0 THEN {"ValueError"} ELSE {"ValueError", "KeyError"}

\* Divisor without the guard against a zero target
Divisor_Unguarded(t) == t

\* (target if target else 1)
Divisor(t) == IF t # 0 THEN t ELSE 1

\* (df[revenue] / (target if target else 1)) * 100.0
Rate(col, t) ==
    [i \in DOMAIN col |-> FMul(FDiv(col[i], Num(Divisor(t))), Num(100))]

\* "#34d399" if v >= 0 else "#f87171"
Color(v) == IF ~IsNaN(v) /\ ~FLess(v, Num(0)) THEN "#34d399" ELSE "#f87171"

Column(rows, c) == [i \in 1..Len(rows) |-> rows[i][c]]

\* AfterError without st.stop(): the script runs on to the KPI cards
AfterError_Continue == "col1"

\* where the render goes after st.error in the enrichment handler: st.stop()
AfterError == "stopped"

(***************************************************************************)
(* One render of the script                                                *)
(***************************************************************************)
VARIABLES
    pc,          \* the block of the script that runs next
    uploaded,    \* st.file_uploader value
    use_sample,  \* st.checkbox value
    target,      \* st.number_input value
    df_raw,      \* << >> while unbound, else <<table>>
    df,          \* << >> while unbound, else <<rows of the enriched table>>
    out,         \* the elements written to the page so far, in order
    message,     \* the text of st.error / st.info, << >> if none
    exception,   \* the exception that escaped the script, "" if none
    metrics,     \* the st.metric cards shown so far
    max_idx,     \* 0 while unbound
    min_idx,     \* 0 while unbound
    fig_trend,   \* << >> while unbound, else <<chart>>
    fig_yoy,
    fig_box,
    fig_kpi,
    preview      \* << >> while unbound, else <<rows shown by st.dataframe>>

vars == <<pc, uploaded, use_sample, target, df_raw, df, out, message,
          exception, metrics, max_idx, min_idx, fig_trend, fig_yoy, fig_box,
          fig_kpi, preview>>

inputs == <<uploaded, use_sample, target>>

figs == <<fig_trend, fig_yoy, fig_box, fig_kpi, preview>>

kpis == <<metrics, max_idx, min_idx>>

Rows == df[1]

\* lines 8-10: page config, title and caption
Init ==
    /\ pc = "sidebar"
    /\ uploaded = NoUpload
    /\ use_sample = FALSE
    /\ target = 0
    /\ df_raw = << >>
    /\ df = << >>
    /\ out = <<"title", "caption">>
    /\ message = << >>
    /\ exception = ""
    /\ metrics = << >>
    /\ max_idx = 0
    /\ min_idx = 0
    /\ fig_trend = << >>
    /\ fig_yoy = << >>
    /\ fig_box = << >>
    /\ fig_kpi = << >>
    /\ preview = << >>

\* lines 63-67: the sidebar widgets return what the user has set
Sidebar ==
    /\ pc = "sidebar"
    /\ \E f \in Uploads, b \in BOOLEAN, t \in Targets :
         /\ uploaded' = f
         /\ use_sample' = b
         /\ target' = t
    /\ pc' = "load"
    /\ UNCHANGED <<df_raw, df, out, message, exception, kpis, figs>>

\* lines 70-71: an uploaded file that parses
LoadUpload ==
    /\ pc = "load"
    /\ uploaded.kind = "csv"
    /\ df_raw' = <<read_csv(uploaded)>>
    /\ pc' = "enrich"
    /\ UNCHANGED <<inputs, df, out, message, exception, kpis, figs>>

\* lines 70-71: pd.read_csv raises and nothing catches it
LoadUploadRaises ==
    /\ pc = "load"
    /\ uploaded.kind = "bad"
    /\ exception' = uploaded.cause
    /\ pc' = "raised"
    /\ UNCHANGED <<inputs, df_raw, df, out, message, kpis, figs>>

\* lines 72-73
LoadSample ==
    /\ pc = "load"
    /\ uploaded.kind = "none"
    /\ use_sample
    /\ df_raw' = <<parse_sample(SAMPLE_CSV)>>
    /\ pc' = "enrich"
    /\ UNCHANGED <<inputs, df, out, message, exception, kpis, figs>>

\* lines 74-76
LoadNothing ==
    /\ pc = "load"
    /\ uploaded.kind = "none"
    /\ ~use_sample
    /\ out' = Append(out, "info")
    /\ message' = <<[text |-> "upload a CSV or select the sample", cause |-> ""]>>
    /\ pc' = "stopped"
    /\ UNCHANGED <<inputs, df_raw, df, exception, kpis, figs>>

\* lines 79-80: enrich_df returns
Enrich ==
    /\ pc = "enrich"
    /\ MissingColumn(df_raw[1].cols) = ""
    /\ \E t \in enrich_df(df_raw[1]) : df' = <<t>>
    /\ pc' = "col1"
    /\ UNCHANGED <<inputs, df_raw, out, message, exception, kpis, figs>>

\* lines 79-83: enrich_df raises KeyError, the handler reports it and stops
EnrichError ==
    /\ pc = "enrich"
    /\ MissingColumn(df_raw[1].cols) # ""
    /\ out' = Append(out, "error")
    /\ message' = <<[text |-> "error while processing the data",
                     cause |-> MissingColumn(df_raw[1].cols)]>>
    /\ pc' = AfterError
    /\ UNCHANGED <<inputs, df_raw, df, exception, kpis, figs>>

Card(name, month, value) == [name |-> name, month |-> month, value |-> value]

\* lines 87-89: total revenue
Col1 ==
    /\ pc = "col1"
    /\ LET total_sales == Trunc(Sum(Column(Rows, "revenue")))
       IN  metrics' = Append(metrics, Card("total", << >>, total_sales))
    /\ out' = Append(out, "metric_total")
    /\ pc' = "col2"
    /\ UNCHANGED <<inputs, df_raw, df, message, exception, max_idx, min_idx, figs>>

\* lines 90-92: average change percentage
Col2 ==
    /\ pc = "col2"
    /\ LET avg_yoy == Mean(Column(Rows, "change"))
       IN  metrics' = Append(metrics, Card("avg", << >>, avg_yoy))
    /\ out' = Append(out, "metric_avg")
    /\ pc' = "col3"
    /\ UNCHANGED <<inputs, df_raw, df, message, exception, max_idx, min_idx, figs>>

\* lines 93-95: the row with the highest revenue
Col3 ==
    /\ pc = "col3"
    /\ IdxMax(Column(Rows, "revenue")) # 0
    /\ max_idx' = IdxMax(Column(Rows, "revenue"))
    /\ metrics' = Append(metrics,
                    Card("max", Rows[max_idx'].month, Rows[max_idx'].revenue))
    /\ out' = Append(out, "metric_max")
    /\ pc' = "col4"
    /\ UNCHANGED <<inputs, df_raw, df, message, exception, min_idx, figs>>

\* lines 93-95: no row has a numeric revenue; the exception escapes
Col3Raises ==
    /\ pc = "col3"
    /\ IdxMax(Column(Rows, "revenue")) = 0
    /\ exception' \in IdxErrors(Column(Rows, "revenue"))
    /\ pc' = "raised"
    /\ UNCHANGED <<inputs, df_raw, df, out, message, kpis, figs>>

\* lines 96-98: the row with the lowest revenue (a numeric revenue exists,
\* or line 94 would have raised)
Col4 ==
    /\ pc = "col4"
    /\ IF IdxMin(Column(Rows, "revenue")) # 0
       THEN /\ min_idx' = IdxMin(Column(Rows, "revenue"))
            /\ metrics' = Append(metrics,
                    Card("min", Rows[min_idx'].month, Rows[min_idx'].revenue))
            /\ out' = Append(out, "metric_min")
            /\ pc' = "trend"
            /\ UNCHANGED exception
       ELSE /\ exception' \in IdxErrors(Column(Rows, "revenue"))
            /\ pc' = "raised"
            /\ UNCHANGED <<metrics, min_idx, out>>
    /\ UNCHANGED <<inputs, df_raw, df, message, max_idx, figs>>

Point(x, y) == [x |-> x, y |-> y]

\* lines 102-125: revenue and prior-year lines with the max and min markers
Trend ==
    /\ pc = "trend"
    /\ fig_trend' = <<[x |-> Column(Rows, "month"),
                       revenue |-> Column(Rows, "revenue"),
                       prior |-> Column(Rows, "prior"),
                       max |-> Point(Rows[max_idx].month, Rows[max_idx].revenue),
                       min |-> Point(Rows[min_idx].month, Rows[min_idx].revenue)]>>
    /\ out' = Append(out, "chart_trend")
    /\ pc' = "yoy"
    /\ UNCHANGED <<inputs, df_raw, df, message, exception, kpis,
                   fig_yoy, fig_box, fig_kpi, preview>>

\* lines 127-136: one bar per period, coloured by sign
Yoy ==
    /\ pc = "yoy"
    /\ fig_yoy' = <<[x |-> Column(Rows, "month"),
                     y |-> Column(Rows, "change"),
                     colors |-> [i \in 1..Len(Rows) |-> Color(Rows[i].change)]]>>
    /\ out' = Append(out, "chart_yoy")
    /\ pc' = "box"
    /\ UNCHANGED <<inputs, df_raw, df, message, exception, kpis,
                   fig_trend, fig_box, fig_kpi, preview>>

\* lines 138-147: revenue by quarter
Box ==
    /\ pc = "box"
    /\ fig_box' = <<[x |-> Column(Rows, "quarter"),
                     y |-> Column(Rows, "revenue")]>>
    /\ out' = Append(out, "chart_box")
    /\ pc' = "kpi"
    /\ UNCHANGED <<inputs, df_raw, df, message, exception, kpis,
                   fig_trend, fig_yoy, fig_kpi, preview>>

\* lines 149-160: attainment per period against the target
Kpi ==
    /\ pc = "kpi"
    /\ fig_kpi' = <<[x |-> Column(Rows, "month"),
                     rate |-> Rate(Column(Rows, "revenue"), target),
                     hline |-> 100]>>
    /\ out' = Append(out, "chart_kpi")
    /\ pc' = "preview"
    /\ UNCHANGED <<inputs, df_raw, df, message, exception, kpis,
                   fig_trend, fig_yoy, fig_box, preview>>

\* lines 162-166: the enriched table without its _date column
Preview ==
    /\ pc = "preview"
    /\ preview' = <<[i \in 1..Len(Rows) |->
                       [c \in DOMAIN Rows[i] \ {"date", "orig"} |-> Rows[i][c]]]>>
    /\ out' = Append(out, "preview")
    /\ pc' = "done"
    /\ UNCHANGED <<inputs, df_raw, df, message, exception, kpis,
                   fig_trend, fig_yoy, fig_box, fig_kpi>>

Next ==
    \/ Sidebar
    \/ LoadUpload
    \/ LoadUploadRaises
    \/ LoadSample
    \/ LoadNothing
    \/ Enrich
    \/ EnrichError
    \/ Col1
    \/ Col2
    \/ Col3
    \/ Col3Raises
    \/ Col4
    \/ Trend
    \/ Yoy
    \/ Box
    \/ Kpi
    \/ Preview

Spec == Init /\ [][Next]_vars

(***************************************************************************)
(* Properties                                                              *)
(***************************************************************************)
Required == {"month", "revenue", "prior"}

\* the elements a render shows after a successful enrichment
Results == {"metric_total", "metric_avg", "metric_max", "metric_min",
            "chart_trend", "chart_yoy", "chart_box", "chart_kpi", "preview"}

Shown == {out[k] : k \in 1..Len(out)}

NoResults ==
    /\ Shown \cap Results = {}
    /\ metrics = << >>
    /\ fig_trend = << >> /\ fig_yoy = << >> /\ fig_box = << >>
    /\ fig_kpi = << >> /\ preview = << >>

\* the input row that became row i of the enriched table
RawRow(i) == df_raw[1].rows[Rows[i].orig]

\* the input has no change percentage for row i: no such column, or no
\* numeric value in it
ChangeAbsent(i) ==
    \/ "change" \notin df_raw[1].cols
    \/ IsNaN(ToNumeric(RawRow(i).change))

\* (revenue - prior) / prior * 100 from the values of row i
ClaimedChange(i) ==
    FMul(FDiv(FSub(Rows[i].revenue, Rows[i].prior), Rows[i].prior), Num(100))

\* C1: the table enrich_df returns is sorted non-decreasing by parsed date,
\* and every row whose label does not parse (null date) comes after all
\* rows with a parseable label.
C1_SortedByDate ==
    df # << >> =>
        \A i, j \in 1..Len(Rows) :
            i < j =>
                /\ IsNaT(Rows[i].date) => IsNaT(Rows[j].date)
                /\ (~IsNaT(Rows[i].date) /\ ~IsNaT(Rows[j].date))
                       => ~DateLess(Rows[j].date, Rows[i].date)

\* C1 witness: three rows given as unparseable, later month, earlier month
\* come out in the reverse order
C1_Witness ==
    /\ df # << >>
    /\ Len(Rows) = 3
    /\ Rows[1].orig = 3 /\ Rows[2].orig = 2 /\ Rows[3].orig = 1
    /\ IsNaT(Rows[3].date)
    /\ ~IsNaT(Rows[1].date) /\ ~IsNaT(Rows[2].date)
    /\ DateLess(Rows[1].date, Rows[2].date)

\* C2: after enrich_df returns no row has a null change percentage,
\* whatever the input column and the revenue and prior-year values were.
C2_ChangePopulated ==
    df # << >> => \A i \in 1..Len(Rows) : ~IsNaN(Rows[i].change)

\* C2 witness: the column is present with an empty cell beside a zero
\* prior-year value, a non-numeric cell, and a row without numeric revenue
C2_Witness ==
    /\ df # << >>
    /\ "change" \in df_raw[1].cols
    /\ \E i \in 1..Len(Rows) :
          RawRow(i).change.k = "nan" /\ Rows[i].prior = Num(0)
    /\ \E i \in 1..Len(Rows) : RawRow(i).change.k = "str"
    /\ \E i \in 1..Len(Rows) :
          RawRow(i).change.k = "nan" /\ IsNaN(Rows[i].revenue)

\* C3 as stated: for any row whose input change percentage is absent and
\* whose prior-year revenue is not 0, the change percentage equals
\* (revenue - prior) / prior * 100 of that row.
C3_Original ==
    df # << >> =>
        \A i \in 1..Len(Rows) :
            (ChangeAbsent(i) /\ Rows[i].prior # Num(0))
                => Rows[i].change = ClaimedChange(i)

\* C3 amended: for any row whose input change percentage is absent, whose
\* revenue and prior-year revenue are both numeric and whose prior-year
\* revenue is not 0, the change percentage equals
\* (revenue - prior) / prior * 100 of that same row.
C3_ChangeComputed ==
    df # << >> =>
        \A i \in 1..Len(Rows) :
            (/\ ChangeAbsent(i)
             /\ IsFinite(Rows[i].revenue) /\ IsFinite(Rows[i].prior)
             /\ Rows[i].prior # Num(0))
                => Rows[i].change = ClaimedChange(i)

\* C3 witness: the two months of the sort scenario, given later month
\* first, come out reordered with 100/7 and -225/16 percent
C3_Witness ==
    /\ df # << >>
    /\ Len(Rows) >= 2
    /\ Rows[1].orig > Rows[2].orig
    /\ ChangeAbsent(1) /\ ChangeAbsent(2)
    /\ Rows[1].revenue = Num(12000000) /\ Rows[1].prior = Num(10500000)
    /\ Rows[1].change = Norm(100, 7, 0)
    /\ Rows[2].revenue = Num(11000000) /\ Rows[2].prior = Num(12800000)
    /\ Rows[2].change = Norm(-225, 16, 0)

\* C4: for any row whose prior-year revenue is 0 and whose input change
\* percentage is absent, the change percentage is exactly 0.
C4_ZeroPrior ==
    df # << >> =>
        \A i \in 1..Len(Rows) :
            (ChangeAbsent(i) /\ Rows[i].prior = Num(0))
                => Rows[i].change = Num(0)

\* C4 witness: a row with revenue 22,000,000 against a prior-year value 0
C4_Witness ==
    /\ df # << >>
    /\ \E i \in 1..Len(Rows) :
          /\ ChangeAbsent(i)
          /\ Rows[i].prior = Num(0)
          /\ Rows[i].revenue = Num(22000000)
          /\ Rows[i].change = Num(0)

\* C5: when the input table lacks a required column, the render reports an
\* error carrying the cause and halts: no metric, chart or preview follows.
C5_MissingColumnHalts ==
    (df_raw # << >> /\ ~(Required \subseteq df_raw[1].cols) /\ pc # "enrich")
        => /\ pc = "stopped"
           /\ out[Len(out)] = "error"
           /\ message # << >>
           /\ message[1].cause \in Required \ df_raw[1].cols
           /\ exception = ""
           /\ df = << >>
           /\ NoResults

\* C5 witness: a table without the revenue column has been reported
C5_Witness ==
    /\ pc = "stopped"
    /\ df_raw # << >>
    /\ "revenue" \notin df_raw[1].cols
    /\ out[Len(out)] = "error"
    /\ message[1].cause = "revenue"

\* C6: when the uploaded file cannot be parsed, the program reports an
\* error message and halts with no results, and no exception escapes.
C6_ParseFailureReported ==
    (uploaded.kind = "bad" /\ pc \notin {"sidebar", "load"})
        => /\ pc = "stopped"
           /\ exception = ""
           /\ "error" \in Shown
           /\ NoResults

\* C7: for any table that has the required columns, enrichment, the four
\* KPI aggregates and the four charts complete without raising.
C7_NoCoercionError ==
    (df_raw # << >> /\ Required \subseteq df_raw[1].cols) => exception = ""

\* row i is the first of the enriched rows holding the largest revenue
FirstMax(i) ==
    /\ i \in 1..Len(Rows)
    /\ ~IsNaN(Rows[i].revenue)
    /\ \A j \in 1..Len(Rows) :
          ~IsNaN(Rows[j].revenue) =>
              /\ ~FLess(Rows[i].revenue, Rows[j].revenue)
              /\ j < i => Rows[j].revenue # Rows[i].revenue

\* row i is the first of the enriched rows holding the smallest revenue
FirstMin(i) ==
    /\ i \in 1..Len(Rows)
    /\ ~IsNaN(Rows[i].revenue)
    /\ \A j \in 1..Len(Rows) :
          ~IsNaN(Rows[j].revenue) =>
              /\ ~FLess(Rows[j].revenue, Rows[i].revenue)
              /\ j < i => Rows[j].revenue # Rows[i].revenue

\* the card of the given name shows the month and revenue of row i
CardShows(name, i) ==
    \A k \in 1..Len(metrics) :
        metrics[k].name = name =>
            /\ metrics[k].month = Rows[i].month
            /\ metrics[k].value = Rows[i].revenue

\* C8: the row reported as maximum (minimum) revenue is the first, in the
\* enriched order, of the rows holding the largest (smallest) non-null
\* revenue, and the card and the trend chart's marker show that same row.
C8_FirstOccurrence ==
    /\ "metric_max" \in Shown => FirstMax(max_idx) /\ CardShows("max", max_idx)
    /\ "metric_min" \in Shown => FirstMin(min_idx) /\ CardShows("min", min_idx)
    /\ fig_trend # << >> =>
          /\ fig_trend[1].max = Point(Rows[max_idx].month, Rows[max_idx].revenue)
          /\ fig_trend[1].min = Point(Rows[min_idx].month, Rows[min_idx].revenue)

\* C8 witness: two rows share the largest revenue, a third row holds a
\* smaller one, and the trend chart marks the earlier row of the pair
C8_Witness ==
    /\ fig_trend # << >>
    /\ \E j \in 1..Len(Rows) :
          j > max_idx /\ Rows[j].revenue = Rows[max_idx].revenue
    /\ FLess(Rows[min_idx].revenue, Rows[max_idx].revenue)
    /\ fig_trend[1].max.x = Rows[max_idx].month

\* C9: for every enriched row and target, the attainment is
\* revenue / target * 100 when the target is not 0 (22,000,000 against
\* 20,000,000 gives 110) and revenue * 100 when it is 0; nothing divides by
\* zero.
C9_Attainment ==
    fig_kpi # << >> =>
        /\ exception = ""
        /\ \A i \in 1..Len(Rows) :
              LET r == fig_kpi[1].rate[i]
                  rev == Rows[i].revenue
              IN  /\ ~IsInf(r)
                  /\ target # 0 => FDiv(r, Num(100)) = FDiv(rev, Num(target))
                  /\ target = 0 => FDiv(r, Num(100)) = rev
                  /\ (target = 20000000 /\ rev = Num(22000000)) => r = Num(110)

\* C9 witness: the attainment chart is built with target 0 over a row with
\* a revenue of 22,000,000
C9_Witness ==
    /\ fig_kpi # << >>
    /\ target = 0
    /\ \E i \in 1..Len(Rows) :
          /\ Rows[i].revenue = Num(22000000)
          /\ fig_kpi[1].rate[i] = Norm(22, 1, 8)

\* the quarter the claim gives a month
ClaimedQuarter(m) ==
    IF m \in 1..3 THEN 1
    ELSE IF m \in 4..6 THEN 2
    ELSE IF m \in 7..9 THEN 3
    ELSE 4

\* C10 as stated: every row of the enriched table carries a quarter in
\* 1..4 given by its month: 1-3 give 1, 4-6 give 2, 7-9 give 3, 10-12 give 4.
C10_Original ==
    df # << >> =>
        \A i \in 1..Len(Rows) :
            /\ Rows[i].quarter \in {Num(q) : q \in 1..4}
            /\ Rows[i].quarter = Num(ClaimedQuarter(Rows[i].date.m))

\* C10 amended: every row of the enriched table whose period label parses
\* carries a quarter in 1..4 given by its month as above; a row whose label
\* does not parse carries a null quarter.
C10_QuarterOfMonth ==
    df # << >> =>
        \A i \in 1..Len(Rows) :
            IF IsNaT(Rows[i].date) THEN IsNaN(Rows[i].quarter)
            ELSE /\ Rows[i].date.m \in 1..12
                 /\ Rows[i].quarter \in {Num(q) : q \in 1..4}
                 /\ Rows[i].quarter = Num(ClaimedQuarter(Rows[i].date.m))

\* C10 witness: rows of March, July and October carry quarters 1, 3 and 4
C10_Witness ==
    /\ df # << >>
    /\ \E i \in 1..Len(Rows) : Rows[i].date.m = 3 /\ Rows[i].quarter = Num(1)
    /\ \E i \in 1..Len(Rows) : Rows[i].date.m = 7 /\ Rows[i].quarter = Num(3)
    /\ \E i \in 1..Len(Rows) : Rows[i].date.m = 10 /\ Rows[i].quarter = Num(4)

=============================================================================
